---- MODULE Spec2Model ----
(***************************************************************************)
(* cf_ai_study_assistant: the Worker's request handlers (src/index.js) and *)
(* the SessionManager Durable Object (durable-objects/SessionManager.js).  *)
(*                                                                         *)
(* One Durable Object exists per userId (idFromName); its storage holds    *)
(* one entry, 'history'.  A Worker request is a process that suspends at   *)
(* every await: the sub-requests to the Durable Object and the AI call.    *)
(* Inside the Durable Object the runtime's input gate delivers no other    *)
(* event while a storage operation of an invocation is in progress.        *)
(***************************************************************************)
EXTENDS Integers, Sequences, FiniteSets, TLC

\* ---------------------------------------------------------------- bounds
\* Number of HTTP requests (each handled once, concurrently with the others).
MaxReq == 2

\* ------------------------------------------------------- program constants
\* SessionManager.addInteraction: "Keep only last 20 interactions".
MAX_HISTORY == 20
\* handleChatRequest: history.slice(-5).
CONTEXT_SIZE == 5

\* A missing JSON field / a missing query parameter (JS undefined / null).
UNDEFINED == "<undefined>"

APOLOGY == "I apologize, but I could not generate a response. Please try again."
FALLBACK == "I encountered an error while processing your request. Please try again."

Reqs == 1..MaxReq
Keys == {"alice", "bob"}
UserIds == Keys \cup {"", UNDEFINED}
Completions == {"c1", "", UNDEFINED}
Methods == {"GET", "POST"}
StaticPaths == {"/", "/api/unknown"}
Paths == {"/api/chat", "/api/session", "/api/session/clear", "/api/voice"} \cup StaticPaths
\* Paths of the OPTIONS requests drawn.
PreflightPaths == {"/api/chat", "/api/session/clear", "/"}
\* JSON bodies of the POST /api/chat requests drawn: <<userId, message>>.
ChatBodies ==
    (Keys \X {"m1"}) \cup
    {<<UNDEFINED, "m1">>, <<"", "m1">>, <<"alice", UNDEFINED>>, <<"bob", "">>,
     <<UNDEFINED, UNDEFINED>>}
\* Lengths of the History a key holds when the observed window starts.
PreLens == {0, 19, 20}

VARIABLES
    storage,      \* per Durable Object: the 'history' entry of state.storage
    gate,         \* per Durable Object: the request whose storage operation holds the input gate (0: open)
    now,          \* the last value Date.now() returned
    pc,           \* per request: where its handler is suspended
    req,          \* per request: method, path, userId and message as far as the handler has read them
    history,      \* per request: handleChatRequest's `history`
    prompt,       \* per request: handleChatRequest's `prompt`, as the pieces concatenated
    aiResult,     \* per request: how env.AI.run settled, and `response.response`
    aiResponse,   \* per request: handleChatRequest's `aiResponse`
    loaded,       \* per request: addInteraction's `history` as returned by storage.get
    resp,         \* per request: the HTTP response sent
    appended,     \* history variable: per key, the records appended since the last clear
    admitOrder,   \* history variable: per key, chat turns in the order of their getHistory
    addOrder,     \* history variable: per key, chat turns in the order their /add reached the object
    appendOrder,  \* history variable: per key, chat turns in the order their record was stored
    pre,          \* history variable: per key, the length of the History in the initial state
    faulted       \* history variable: per request, a storage operation of its sub-request threw

vars == <<storage, gate, now, pc, req, history, prompt, aiResult, aiResponse, loaded, resp,
          appended, admitOrder, addOrder, appendOrder, pre, faulted>>

\* ------------------------------------------------------------ pure helpers
Min(a, b) == IF a < b THEN a ELSE b
Max(a, b) == IF a > b THEN a ELSE b

\* Variant: only a missing value is falsy, the empty string passes.
Truthy_EmptyPasses(v) == v # UNDEFINED

\* JS truthiness of a string-or-missing value: `!userId`, `x || y`.
Truthy(v) == v # UNDEFINED /\ v # ""

\* Array.prototype.slice(-n): the last n elements (all of them if fewer).
SliceLast(h, n) == SubSeq(h, Max(1, Len(h) - n + 1), Len(h))

\* Variant: slice(0, 5), the oldest records instead of the newest.
RecentHistory_Oldest(h) ==
    LET s == SubSeq(h, 1, Min(Len(h), CONTEXT_SIZE))
    IN [i \in 1..Len(s) |-> [user |-> s[i].userMessage, assistant |-> s[i].aiResponse]]

\* history.slice(-5).map(h => ({user: h.userMessage, assistant: h.aiResponse}))
RecentHistory(h) ==
    LET s == SliceLast(h, CONTEXT_SIZE)
    IN [i \in 1..Len(s) |-> [user |-> s[i].userMessage, assistant |-> s[i].aiResponse]]

\* Variant: the two body fields end up in each other's place.
Interaction_Swapped(t, message, response) ==
    [timestamp |-> t, userMessage |-> response, aiResponse |-> message]

\* The record addInteraction pushes.
Interaction(t, message, response) ==
    [timestamp |-> t, userMessage |-> message, aiResponse |-> response]

\* Variant: every name resolves to one shared object.
IdFromName_Shared(userId) == "alice"

\* env.SESSION_MANAGER.idFromName(userId): one object id per name.
IdFromName(userId) == userId

\* `await this.state.storage.get('history') || []`
StoredHistory(entry) == IF entry.has THEN entry.val ELSE <<>>

\* Variant: the bound is compared one too high.
PushAndTrim_OffByOne(h, rec) ==
    LET pushed == Append(h, rec)
    IN IF Len(pushed) > MAX_HISTORY + 1 THEN Tail(pushed) ELSE pushed

\* Variant: pop() instead of shift(), the newest record is dropped.
PushAndTrim_Pop(h, rec) ==
    LET pushed == Append(h, rec)
    IN IF Len(pushed) > MAX_HISTORY THEN SubSeq(pushed, 1, Len(pushed) - 1) ELSE pushed

\* Variant: unshift() instead of push(), the newest record goes first.
PushAndTrim_Unshift(h, rec) ==
    LET pushed == <<rec>> \o h
    IN IF Len(pushed) > MAX_HISTORY THEN Tail(pushed) ELSE pushed

\* history.push(rec); if (history.length > 20) history.shift();
PushAndTrim(h, rec) ==
    LET pushed == Append(h, rec)
    IN IF Len(pushed) > MAX_HISTORY THEN Tail(pushed) ELSE pushed

PREAMBLE == "You are an AI study assistant specializing in programming and computer science education.\nYou help students understand complex concepts through clear explanations and examples and you can use technical terminology appropriately.\n"

\* history.forEach(h => { prompt += `Student: ${h.user}\nAssistant: ${h.assistant}\n`; })
RECURSIVE Transcript(_)
Transcript(context) ==
    IF context = <<>> THEN <<>>
    ELSE <<"Student: ", Head(context).user, "\nAssistant: ", Head(context).assistant, "\n">>
            \o Transcript(Tail(context))

\* Variant: the context is rendered newest first.
BuildPrompt_NewestFirst(message, context) ==
    <<PREAMBLE>>
    \o (IF Len(context) > 0
        THEN <<"Previous conversation context:\n">>
                \o Transcript([i \in 1..Len(context) |-> context[Len(context) + 1 - i]])
                \o <<"\n">>
        ELSE <<>>)
    \o <<"Current question: ", message, "\n\nProvide a helpful, educational response:">>

\* buildPrompt(message, history): the pieces `prompt` is concatenated from.
BuildPrompt(message, context) ==
    <<PREAMBLE>>
    \o (IF Len(context) > 0
        THEN <<"Previous conversation context:\n">> \o Transcript(context) \o <<"\n">>
        ELSE <<>>)
    \o <<"Current question: ", message, "\n\nProvide a helpful, educational response:">>

\* Variant: no `|| APOLOGY`, the completion is used as it came.
CompletionOrApology_None(c) == c

\* response.response || APOLOGY
CompletionOrApology(c) == IF Truthy(c) THEN c ELSE APOLOGY

\* ------------------------------------------------------------- responses
NoResp == [status |-> 0, kind |-> "none", text |-> "", sessionId |-> "", body |-> <<>>]
Response(status, kind, text) ==
    [status |-> status, kind |-> kind, text |-> text, sessionId |-> "", body |-> <<>>]
ChatResponse(text, userId) ==
    [status |-> 200, kind |-> "chat", text |-> text, sessionId |-> userId, body |-> <<>>]
HistoryResponse(h) ==
    [status |-> 200, kind |-> "history", text |-> "", sessionId |-> "", body |-> h]
ErrorResponse(status, message) == Response(status, "error", message)

\* env.AI.run's promise: pending, resolved with {response}, or rejected.
NoResult == [settled |-> "pending", response |-> UNDEFINED]
Resolved(c) == [settled |-> "resolved", response |-> c]
Rejected == [settled |-> "rejected", response |-> UNDEFINED]

\* A request as far as its handler has read it; json: request.json()
\* returned the body's object.
NoReq == [method |-> "", path |-> "", json |-> FALSE, userId |-> UNDEFINED, message |-> UNDEFINED]
Request(method, path, userId, message) ==
    [method |-> method, path |-> path, json |-> FALSE, userId |-> userId, message |-> message]
JsonRequest(method, path, userId, message) ==
    [method |-> method, path |-> path, json |-> TRUE, userId |-> userId, message |-> message]

\* The History a key holds after n sequential turns at times 1..n.
PreHistory(n) ==
    [i \in 1..n |-> Interaction(i, IF i % 2 = 1 THEN "m1" ELSE "m2", "c1")]

\* ----------------------------------------------------------------- Init
Init ==
    /\ pre \in {f \in [Keys -> PreLens] : f["bob"] = 0}
    /\ storage = [k \in Keys |->
                    IF pre[k] = 0 THEN [has |-> FALSE, val |-> <<>>]
                    ELSE [has |-> TRUE, val |-> PreHistory(pre[k])]]
    /\ appended = [k \in Keys |-> PreHistory(pre[k])]
    /\ gate = [k \in Keys |-> 0]
    /\ now = MAX_HISTORY
    /\ pc = [r \in Reqs |-> "idle"]
    /\ req = [r \in Reqs |-> NoReq]
    /\ history = [r \in Reqs |-> <<>>]
    /\ prompt = [r \in Reqs |-> <<>>]
    /\ aiResult = [r \in Reqs |-> NoResult]
    /\ aiResponse = [r \in Reqs |-> UNDEFINED]
    /\ loaded = [r \in Reqs |-> <<>>]
    /\ resp = [r \in Reqs |-> NoResp]
    /\ admitOrder = [k \in Keys |-> <<>>]
    /\ addOrder = [k \in Keys |-> <<>>]
    /\ appendOrder = [k \in Keys |-> <<>>]
    /\ faulted = [r \in Reqs |-> FALSE]

\* The Durable Object a request's handler resolved.
Session(r) == IdFromName(req[r].userId)

\* Variant: a store without input gates (a plain key-value namespace).
InputGateOpen_Absent(k) == TRUE

\* The input gate of object k is open: no storage operation of an
\* invocation is in progress, so the object takes the next event.
InputGateOpen(k) == gate[k] = 0

\* The handler returns `response`; its local variables are gone.
Finish(r, response) ==
    /\ pc' = [pc EXCEPT ![r] = "done"]
    /\ resp' = [resp EXCEPT ![r] = response]
    /\ history' = [history EXCEPT ![r] = <<>>]
    /\ prompt' = [prompt EXCEPT ![r] = <<>>]
    /\ aiResult' = [aiResult EXCEPT ![r] = NoResult]
    /\ aiResponse' = [aiResponse EXCEPT ![r] = UNDEFINED]
    /\ loaded' = [loaded EXCEPT ![r] = <<>>]

\* The handler suspends at its next await.
Suspend(r, at) ==
    /\ pc' = [pc EXCEPT ![r] = at]
    /\ UNCHANGED <<resp, history, prompt, aiResult, aiResponse, loaded>>

Ghosts == <<appended, admitOrder, addOrder, appendOrder, pre, faulted>>

\* ------------------------------------------------------------ the Worker
\* fetch: `if (request.method === 'OPTIONS')`.
Preflight(r) ==
    /\ pc[r] = "idle"
    /\ \E path \in PreflightPaths :
         req' = [req EXCEPT ![r] = Request("OPTIONS", path, UNDEFINED, UNDEFINED)]
    /\ Finish(r, Response(200, "null", ""))
    /\ UNCHANGED <<storage, gate, now, Ghosts>>

\* Variant: no method test, a request of any method is read as a chat turn.
HandleChatRequest_AnyMethod(r) ==
    /\ pc[r] = "idle"
    /\ \E method \in Methods, body \in ChatBodies :
         /\ req' = [req EXCEPT ![r] = JsonRequest(method, "/api/chat", body[1], body[2])]
         /\ IF ~Truthy(body[1]) \/ ~Truthy(body[2])
            THEN Finish(r, ErrorResponse(400, "Missing userId or message"))
            ELSE Suspend(r, "history")
    /\ UNCHANGED <<storage, gate, now, Ghosts>>

\* handleChatRequest up to its first await on the session object.
\* Second disjunct: the body is no JSON, request.json() throws and fetch's
\* catch answers 500.
HandleChatRequest(r) ==
    /\ pc[r] = "idle"
    /\ \/ \E method \in Methods \ {"POST"} :
            /\ req' = [req EXCEPT ![r] = Request(method, "/api/chat", UNDEFINED, UNDEFINED)]
            /\ Finish(r, Response(405, "text", "Method not allowed"))
       \/ /\ req' = [req EXCEPT ![r] = Request("POST", "/api/chat", UNDEFINED, UNDEFINED)]
          /\ Finish(r, ErrorResponse(500, "Unexpected token"))
       \/ \E body \in ChatBodies :
            /\ req' = [req EXCEPT ![r] = JsonRequest("POST", "/api/chat", body[1], body[2])]
            /\ IF ~Truthy(body[1]) \/ ~Truthy(body[2])
               THEN Finish(r, ErrorResponse(400, "Missing userId or message"))
               ELSE Suspend(r, "history")
    /\ UNCHANGED <<storage, gate, now, Ghosts>>

\* The Durable Object runs getHistory for the chat turn; handleChatRequest
\* resumes with `history`, derives the context window from it, builds the
\* prompt and calls env.AI.run.
ChatGetHistory(r) ==
    /\ pc[r] = "history"
    /\ InputGateOpen(Session(r))
    /\ history' = [history EXCEPT ![r] = StoredHistory(storage[Session(r)])]
    /\ prompt' = [prompt EXCEPT ![r] =
                     BuildPrompt(req[r].message, RecentHistory(history'[r]))]
    /\ admitOrder' = [admitOrder EXCEPT ![Session(r)] = Append(@, r)]
    /\ pc' = [pc EXCEPT ![r] = "ai"]
    /\ UNCHANGED <<storage, gate, now, req, aiResult, aiResponse, loaded, resp,
                   appended, addOrder, appendOrder, pre, faulted>>

\* handleChatRequest's `recentHistory`.
Context(r) == RecentHistory(history[r])

\* env.AI.run resolves: aiResponse = response.response || APOLOGY.
AIRunResolves(r) ==
    /\ pc[r] = "ai"
    /\ \E c \in Completions :
         /\ aiResult' = [aiResult EXCEPT ![r] = Resolved(c)]
         /\ aiResponse' = [aiResponse EXCEPT ![r] = CompletionOrApology(c)]
    /\ pc' = [pc EXCEPT ![r] = "add"]
    /\ UNCHANGED <<storage, gate, now, req, history, prompt, loaded, resp, Ghosts>>

\* Variant: no try/catch around env.AI.run, the rejection reaches fetch's catch.
AIRunRejects_Uncaught(r) ==
    /\ pc[r] = "ai"
    /\ Finish(r, ErrorResponse(500, "AI error"))
    /\ UNCHANGED <<storage, gate, now, req, Ghosts>>

\* env.AI.run rejects: the catch block substitutes the fallback.
AIRunRejects(r) ==
    /\ pc[r] = "ai"
    /\ aiResult' = [aiResult EXCEPT ![r] = Rejected]
    /\ aiResponse' = [aiResponse EXCEPT ![r] = FALLBACK]
    /\ pc' = [pc EXCEPT ![r] = "add"]
    /\ UNCHANGED <<storage, gate, now, req, history, prompt, loaded, resp, Ghosts>>

\* ----------------------------------------------------- the Durable Object
\* Variant: the /add sub-request is sent but not awaited; the turn is
\* answered at once and the record is never stored.
AddInteractionGet_NotAwaited(r) ==
    /\ pc[r] = "add"
    /\ Finish(r, ChatResponse(aiResponse[r], req[r].userId))
    /\ UNCHANGED <<storage, gate, now, req, Ghosts>>

\* addInteraction, first half: request.json() and storage.get('history').
\* The storage operation closes the object's input gate.
AddInteractionGet(r) ==
    /\ pc[r] = "add"
    /\ InputGateOpen(Session(r))
    /\ loaded' = [loaded EXCEPT ![r] = StoredHistory(storage[Session(r)])]
    /\ gate' = [gate EXCEPT ![Session(r)] = r]
    /\ addOrder' = [addOrder EXCEPT ![Session(r)] = Append(@, r)]
    /\ pc' = [pc EXCEPT ![r] = "put"]
    /\ UNCHANGED <<storage, now, req, history, prompt, aiResult, aiResponse, resp,
                   appended, admitOrder, appendOrder, pre, faulted>>

\* addInteraction, second half: push, shift, storage.put, 'OK'; then
\* handleChatRequest returns {response, sessionId}.
AddInteractionPut(r) ==
    /\ pc[r] = "put"
    /\ \E t \in {now, now + 1} :
         LET rec == Interaction(t, req[r].message, aiResponse[r])
         IN /\ now' = t
            /\ storage' = [storage EXCEPT ![Session(r)] =
                              [has |-> TRUE, val |-> PushAndTrim(loaded[r], rec)]]
            /\ appended' = [appended EXCEPT ![Session(r)] = Append(@, rec)]
    /\ gate' = [gate EXCEPT ![Session(r)] = IF @ = r THEN 0 ELSE @]
    /\ appendOrder' = [appendOrder EXCEPT ![Session(r)] = Append(@, r)]
    /\ Finish(r, ChatResponse(aiResponse[r], req[r].userId))
    /\ UNCHANGED <<req, admitOrder, addOrder, pre, faulted>>

\* handleSessionRequest up to its await on the session object.
HandleSessionRequest(r) ==
    /\ pc[r] = "idle"
    /\ \E userId \in UserIds :
         /\ req' = [req EXCEPT ![r] = Request("GET", "/api/session", userId, UNDEFINED)]
         /\ IF ~Truthy(userId)
            THEN Finish(r, ErrorResponse(400, "Missing userId"))
            ELSE Suspend(r, "session")
    /\ UNCHANGED <<storage, gate, now, Ghosts>>

\* Variant: the object answers from a copy it loaded when it was constructed.
SessionGetHistory_Stale(r) ==
    /\ pc[r] = "session"
    /\ InputGateOpen(Session(r))
    /\ Finish(r, HistoryResponse(PreHistory(pre[Session(r)])))
    /\ UNCHANGED <<storage, gate, now, req, Ghosts>>

\* Variant: getHistory creates the entry when there is none.
SessionGetHistory_Creates(r) ==
    /\ pc[r] = "session"
    /\ InputGateOpen(Session(r))
    /\ storage' = [storage EXCEPT ![Session(r)] = [has |-> TRUE, val |-> StoredHistory(@)]]
    /\ Finish(r, HistoryResponse(StoredHistory(storage[Session(r)])))
    /\ UNCHANGED <<gate, now, req, Ghosts>>

\* Variant: a key without an entry is answered 'Not found'.
SessionGetHistory_MissingFails(r) ==
    /\ pc[r] = "session"
    /\ InputGateOpen(Session(r))
    /\ IF storage[Session(r)].has
       THEN Finish(r, HistoryResponse(storage[Session(r)].val))
       ELSE Finish(r, ErrorResponse(404, "Not found"))
    /\ UNCHANGED <<storage, gate, now, req, Ghosts>>

\* The Durable Object runs getHistory; handleSessionRequest returns it.
SessionGetHistory(r) ==
    /\ pc[r] = "session"
    /\ InputGateOpen(Session(r))
    /\ Finish(r, HistoryResponse(StoredHistory(storage[Session(r)])))
    /\ UNCHANGED <<storage, gate, now, req, Ghosts>>

\* handleClearSessionRequest up to its await on the session object.
HandleClearSessionRequest(r) ==
    /\ pc[r] = "idle"
    /\ \/ \E method \in Methods \ {"POST"} :
            /\ req' = [req EXCEPT ![r] = Request(method, "/api/session/clear", UNDEFINED, UNDEFINED)]
            /\ Finish(r, Response(405, "text", "Method not allowed"))
       \/ \E userId \in UserIds :
            /\ req' = [req EXCEPT ![r] = Request("POST", "/api/session/clear", userId, UNDEFINED)]
            /\ IF ~Truthy(userId)
               THEN Finish(r, ErrorResponse(400, "Missing userId"))
               ELSE Suspend(r, "clear")
    /\ UNCHANGED <<storage, gate, now, Ghosts>>

\* Variant: clearHistory deletes another entry, 'history' stays.
ClearHistory_WrongKey(r) ==
    /\ pc[r] = "clear"
    /\ InputGateOpen(Session(r))
    /\ appended' = [appended EXCEPT ![Session(r)] = <<>>]
    /\ Finish(r, Response(200, "success", ""))
    /\ UNCHANGED <<storage, gate, now, req, admitOrder, addOrder, appendOrder, pre, faulted>>

\* The Durable Object runs clearHistory: storage.delete('history');
\* handleClearSessionRequest returns {success: true}.
ClearHistory(r) ==
    /\ pc[r] = "clear"
    /\ InputGateOpen(Session(r))
    /\ storage' = [storage EXCEPT ![Session(r)] = [has |-> FALSE, val |-> <<>>]]
    /\ appended' = [appended EXCEPT ![Session(r)] = <<>>]
    /\ Finish(r, Response(200, "success", ""))
    /\ UNCHANGED <<gate, now, req, admitOrder, addOrder, appendOrder, pre, faulted>>

\* handleVoiceRequest.
HandleVoiceRequest(r) ==
    /\ pc[r] = "idle"
    /\ req' = [req EXCEPT ![r] = Request("POST", "/api/voice", UNDEFINED, UNDEFINED)]
    /\ Finish(r, ErrorResponse(501, "Voice transcription not yet implemented"))
    /\ UNCHANGED <<storage, gate, now, Ghosts>>

\* Variant: a path that is no route is answered 'Not found'.
ServeStatic_NotFound(r) ==
    /\ pc[r] = "idle"
    /\ \E path \in StaticPaths :
         /\ req' = [req EXCEPT ![r] = Request("GET", path, UNDEFINED, UNDEFINED)]
         /\ IF path = "/"
            THEN Finish(r, Response(200, "html", ""))
            ELSE Finish(r, Response(404, "text", "Not found"))
    /\ UNCHANGED <<storage, gate, now, Ghosts>>

\* fetch: any other path serves the static frontend.
ServeStatic(r) ==
    /\ pc[r] = "idle"
    /\ \E path \in StaticPaths :
         req' = [req EXCEPT ![r] = Request("GET", path, UNDEFINED, UNDEFINED)]
    /\ Finish(r, Response(200, "html", ""))
    /\ UNCHANGED <<storage, gate, now, Ghosts>>

\* Variant: the sub-request's exception is swallowed and the handler
\* answers as if the operation had succeeded.
StorageFault_Absorbed(r) ==
    /\ \/ pc[r] \in {"history", "session", "clear", "add"} /\ InputGateOpen(Session(r))
       \/ pc[r] = "put"
    /\ gate' = [gate EXCEPT ![Session(r)] = IF @ = r THEN 0 ELSE @]
    /\ faulted' = [faulted EXCEPT ![r] = TRUE]
    /\ Finish(r, Response(200, "success", ""))
    /\ UNCHANGED <<storage, now, req, appended, admitOrder, addOrder, appendOrder, pre>>

\* A storage.get / put / delete of the request's pending Durable Object
\* operation throws: the operation leaves the entry as it was, the
\* exception reaches fetch's catch, which answers 500.
StorageFault(r) ==
    /\ \/ pc[r] \in {"history", "session", "clear", "add"} /\ InputGateOpen(Session(r))
       \/ pc[r] = "put"
    /\ gate' = [gate EXCEPT ![Session(r)] = IF @ = r THEN 0 ELSE @]
    /\ faulted' = [faulted EXCEPT ![r] = TRUE]
    /\ Finish(r, ErrorResponse(500, "StorageUnavailable"))
    /\ UNCHANGED <<storage, now, req, appended, admitOrder, addOrder, appendOrder, pre>>

Next ==
    \E r \in Reqs :
        \/ Preflight(r)
        \/ HandleChatRequest(r)
        \/ ChatGetHistory(r)
        \/ AIRunResolves(r)
        \/ AIRunRejects(r)
        \/ AddInteractionGet(r)
        \/ AddInteractionPut(r)
        \/ HandleSessionRequest(r)
        \/ SessionGetHistory(r)
        \/ HandleClearSessionRequest(r)
        \/ ClearHistory(r)
        \/ HandleVoiceRequest(r)
        \/ ServeStatic(r)
        \/ StorageFault(r)

Spec == Init /\ [][Next]_vars

TypeOK ==
    /\ \A k \in Keys : gate[k] \in Reqs \cup {0}
    /\ \A r \in Reqs : pc[r] \in {"idle", "history", "ai", "add", "put", "session", "clear", "done"}

\* ------------------------------------------------------ derived notions
\* A field that is missing or empty.
Absent(v) == v \in {UNDEFINED, ""}

IsChat(r) == req[r].path = "/api/chat" /\ req[r].method = "POST" /\ req[r].json
IsClear(r) == req[r].path = "/api/session/clear" /\ req[r].method = "POST"

\* The chat turns for key k that were answered {response, sessionId}.
CompletedTurns(k) ==
    {r \in Reqs : IsChat(r) /\ req[r].userId = k /\ pc[r] = "done" /\ resp[r].status = 200}

\* No clearHistory has run on key k.
NoClear(k) ==
    \A r \in Reqs : ~(IsClear(r) /\ req[r].userId = k /\ pc[r] = "done" /\ resp[r].status = 200)

\* Position of x in the sequence s (0 if absent).
IndexOf(s, x) == IF \E i \in DOMAIN s : s[i] = x THEN CHOOSE i \in DOMAIN s : s[i] = x ELSE 0

\* The elements of a occur in b, in the same relative order.
InOrderOf(a, b) ==
    /\ \A i \in DOMAIN a : IndexOf(b, a[i]) > 0
    /\ \A i, j \in DOMAIN a : i < j => IndexOf(b, a[i]) < IndexOf(b, a[j])

\* ------------------------------------------------------------------ C1
\* C1: in every reachable state every key's stored History has at most
\* MAX_HISTORY (20) records.
HistoryBounded ==
    \A k \in Keys : Len(StoredHistory(storage[k])) <= MAX_HISTORY

\* An append has been applied to a full History, which is full again.
HistoryBoundedWitness ==
    \E k \in Keys :
        /\ Len(appended[k]) > MAX_HISTORY
        /\ Len(StoredHistory(storage[k])) = MAX_HISTORY

\* ------------------------------------------------------------------ C2
\* C2: a key's History is exactly the last min(n, 20) of the n records
\* appended to it since its last clear, in the order they were appended.
FifoEviction ==
    \A k \in Keys :
        LET n == Len(appended[k])
            kept == Min(n, MAX_HISTORY)
            h == StoredHistory(storage[k])
        IN /\ Len(h) = kept
           /\ \A i \in 1..kept : h[i] = appended[k][n - kept + i]

\* The 21st record was appended: record 1 is gone, records 2..21 remain.
FifoEvictionWitness ==
    \E k \in Keys :
        /\ Len(appended[k]) = MAX_HISTORY + 1
        /\ storage[k].val[1] = appended[k][2]
        /\ storage[k].val[MAX_HISTORY] = appended[k][MAX_HISTORY + 1]
        /\ appended[k][1] # appended[k][2]

\* ------------------------------------------------------------------ C3
\* C3 as claimed: the History a chat turn's record is appended to has, as
\* its last 5 records, the context window the turn was answered with (no
\* append or clear took effect between the turn's getHistory and its add).
TurnReadWriteNotInterleaved ==
    \A r \in Reqs : pc[r] = "put" => RecentHistory(loaded[r]) = Context(r)

\* C3 as amended: each single Session Actor operation is atomic: between
\* an append's load of the stored History and its store, no other append
\* or clear on that key takes effect.
AppendOperationAtomic ==
    \A r \in Reqs : pc[r] = "put" =>
        /\ StoredHistory(storage[Session(r)]) = loaded[r]
        /\ \A q \in Reqs \ {r} : ~(pc[q] = "put" /\ Session(q) = Session(r))

\* An append is between its load and its store, and the History it loaded
\* is no longer the one its turn read: another operation came in between
\* the turn's two operations, none inside the append.
AppendOperationAtomicWitness ==
    \E r \in Reqs :
        /\ pc[r] = "put"
        /\ loaded[r] # history[r]
        /\ StoredHistory(storage[Session(r)]) = loaded[r]

\* ------------------------------------------------------------------ C4
\* C4: no lost updates: with no clear on a key, its History has grown by
\* one record for each completed chat turn (up to the 20-record bound), and
\* the record of every completed turn is in it.
NoLostUpdate ==
    \A k \in Keys : NoClear(k) =>
        LET h == StoredHistory(storage[k])
        IN /\ Len(h) = Min(MAX_HISTORY, pre[k] + Cardinality(CompletedTurns(k)))
           /\ \A r \in CompletedTurns(k) :
                \E i \in DOMAIN h :
                    /\ i > Len(h) - Cardinality(CompletedTurns(k))
                    /\ h[i].userMessage = req[r].message
                    /\ h[i].aiResponse = resp[r].text

\* Two turns for one key overlapped (the first admitted was stored second)
\* and both completed.
NoLostUpdateWitness ==
    \E k \in Keys :
        /\ NoClear(k)
        /\ Cardinality(CompletedTurns(k)) >= 2
        /\ Len(admitOrder[k]) >= 2
        /\ admitOrder[k][1] = appendOrder[k][2]

StepOf(r) == pc'[r] # pc[r]

\* C6: a step of a request addressed to key a leaves the History of every
\* other key b as it was, and a record is appended only to the History of
\* the userId that sent the turn.
IsolationAcrossKeys ==
    [][\A r \in Reqs : StepOf(r) =>
          \A b \in Keys : b # req'[r].userId =>
              /\ storage'[b] = storage[b]
              /\ appended'[b] = appended[b]]_vars

\* Turns of both users were recorded, each in its own user's History, and
\* alice's earlier records are still in place.
IsolationAcrossKeysWitness ==
    /\ Cardinality(CompletedTurns("alice")) = 1
    /\ Cardinality(CompletedTurns("bob")) = 1
    /\ Len(StoredHistory(storage["bob"])) = 1
    /\ Len(StoredHistory(storage["alice"])) = MAX_HISTORY
    /\ pre["alice"] = MAX_HISTORY - 1

\* ------------------------------------------------------------------ C7
\* The newest record of key k's History after the step.
Newest(k) == storage'[k].val[Len(storage'[k].val)]

\* The step ends request r's handler with fetch's 500 for a storage fault.
StorageFailed(r) ==
    /\ pc'[r] = "done"
    /\ resp'[r] = ErrorResponse(500, "StorageUnavailable")
    /\ storage' = storage

\* C7: a chat turn of user u with message m whose inference returned a
\* non-empty completion c is answered {response: c, sessionId: u} and
\* appends, once, the record (m, c) as the newest of u's History (the
\* store working); no other step of the turn changes any History.
ChatTurnRecorded ==
    [][\A r \in Reqs :
          /\ (aiResult[r].settled = "resolved" /\ ~Absent(aiResult[r].response)
                 /\ pc'[r] = "done" /\ ~StorageFailed(r)) =>
                LET u == req[r].userId
                IN /\ resp'[r] = ChatResponse(aiResult[r].response, u)
                   /\ storage'[u].has
                   /\ Newest(u).userMessage = req[r].message
                   /\ Newest(u).aiResponse = aiResult[r].response
                   /\ Len(appended'[u]) = Len(appended[u]) + 1
                   /\ (StoredHistory(storage[u]) = <<>> => Len(storage'[u].val) = 1)
          /\ (StepOf(r) /\ IsChat(r) /\ pc[r] # "put") => storage' = storage]_vars

\* From an empty History: the answer carries the completion and the
\* History has length 1 with exactly that pair.
ChatTurnRecordedWitness ==
    \E r \in Reqs :
        /\ pc[r] = "done"
        /\ resp[r] = ChatResponse("c1", "alice")
        /\ pre["alice"] = 0
        /\ Len(StoredHistory(storage["alice"])) = 1
        /\ storage["alice"].val[1].userMessage = "m1"
        /\ storage["alice"].val[1].aiResponse = "c1"

\* ------------------------------------------------------------------ C8
\* C8: when the inference call of a valid turn fails, the turn is answered
\* 200 with the fixed non-empty fallback, and one record (message,
\* fallback) is appended as the newest of the user's History; a 500 can
\* only come from the store, never from the inference failure.
InferenceFailureAbsorbed ==
    [][\A r \in Reqs :
          /\ (pc[r] = "ai" /\ StepOf(r)) => pc'[r] = "add"
          /\ (aiResult[r].settled = "rejected" /\ pc'[r] = "done" /\ ~StorageFailed(r)) =>
                   LET u == req[r].userId
                   IN /\ resp'[r] = ChatResponse(FALLBACK, u)
                      /\ FALLBACK # ""
                      /\ Newest(u).userMessage = req[r].message
                      /\ Newest(u).aiResponse = resp'[r].text
                      /\ Len(appended'[u]) = Len(appended[u]) + 1]_vars

\* A turn whose inference failed was answered with the fallback, which is
\* the newest record of the History.
InferenceFailureAbsorbedWitness ==
    \E r \in Reqs :
        /\ pc[r] = "done"
        /\ IsChat(r)
        /\ resp[r].status = 200
        /\ resp[r].text = FALLBACK
        /\ storage[req[r].userId].val[Len(storage[req[r].userId].val)].aiResponse = FALLBACK

\* ------------------------------------------------------------------ C9
\* The handlers' own steps are taken when they can be: the Durable Object
\* answers its sub-requests.  Nothing makes env.AI.run settle.
LiveSpec ==
    /\ Spec
    /\ \A r \in Reqs :
         /\ SF_vars(ChatGetHistory(r))
         /\ SF_vars(AddInteractionGet(r))
         /\ WF_vars(AddInteractionPut(r))
         /\ SF_vars(SessionGetHistory(r))
         /\ SF_vars(ClearHistory(r))

\* C9: every admitted valid chat turn eventually completes, even if the
\* inference collaborator never returns.
ChatTurnEventuallyCompletes ==
    \A r \in Reqs : (pc[r] = "ai") ~> (pc[r] = "done")

\* ------------------------------------------------------------------ C10
\* The request lacks a required field.
Invalid(q) ==
    \/ q.path = "/api/chat" /\ q.method = "POST" /\ q.json
          /\ (Absent(q.userId) \/ Absent(q.message))
    \/ q.path = "/api/session" /\ Absent(q.userId)
    \/ q.path = "/api/session/clear" /\ q.method = "POST" /\ Absent(q.userId)

\* C10: a request lacking userId (or, for /api/chat, message) is answered
\* 400 in its handler's first step, before any Session Actor or inference
\* call, and no History is modified.
ValidationFailsFast ==
    [][\A r \in Reqs :
          (pc[r] = "idle" /\ StepOf(r) /\ Invalid(req'[r])) =>
              /\ pc'[r] = "done"
              /\ resp'[r].status = 400
              /\ resp'[r].kind = "error"
              /\ storage' = storage
              /\ appended' = appended
              /\ gate' = gate
              /\ <<admitOrder, addOrder, appendOrder>>' = <<admitOrder, addOrder, appendOrder>>]_vars

\* Both kinds of invalid request were answered 400 and every History is
\* as it was initially.
ValidationFailsFastWitness ==
    /\ \E r \in Reqs : pc[r] = "done" /\ resp[r].status = 400 /\ req[r].path = "/api/chat"
    /\ \E r \in Reqs : pc[r] = "done" /\ resp[r].status = 400 /\ req[r].path = "/api/session/clear"
    /\ \A k \in Keys : StoredHistory(storage[k]) = PreHistory(pre[k])

\* ------------------------------------------------------------------ C11
\* The turn's record was stored by addInteraction.
Appended(r) == req[r].userId \in Keys /\ IndexOf(appendOrder[req[r].userId], r) > 0

\* The turn's /add sub-request reached the Durable Object.
AddArrived(r) == req[r].userId \in Keys /\ IndexOf(addOrder[req[r].userId], r) > 0

\* C11: a chat turn answered {response, sessionId} has had its record
\* appended before the answer; a turn whose append did not take place is
\* never answered with a success response.
NoDroppedTurn ==
    \A r \in Reqs :
        /\ (pc[r] = "done" /\ resp[r].kind = "chat") => Appended(r)
        /\ (pc[r] = "done" /\ IsChat(r) /\ ~Absent(req[r].userId) /\ ~Absent(req[r].message)
              /\ ~Appended(r)) => resp[r].status >= 400

\* One turn was answered after its append; another, whose /add reached the
\* object but was not stored, was answered with an error.
NoDroppedTurnWitness ==
    \E r, q \in Reqs :
        /\ pc[r] = "done" /\ resp[r].kind = "chat" /\ Appended(r)
        /\ pc[q] = "done" /\ IsChat(q) /\ ~Appended(q)
        /\ AddArrived(q)
        /\ resp[q].status = 500

\* ------------------------------------------------------------------ C12
\* C12: a storage fault during getHistory, recordInteraction or
\* clearHistory is answered 500, and the step in which the operation fails
\* leaves every key's stored History exactly as it was.
StorageFaultSurfaced ==
    [][\A r \in Reqs :
          (faulted'[r] /\ ~faulted[r]) =>
              /\ pc'[r] = "done"
              /\ resp'[r].status = 500
              /\ resp'[r].kind = "error"
              /\ storage' = storage
              /\ appended' = appended]_vars

\* An append failed after its load: the turn got 500 and the History is
\* the initial one.
StorageFaultSurfacedWitness ==
    \E r \in Reqs :
        /\ faulted[r]
        /\ IsChat(r)
        /\ AddArrived(r)
        /\ resp[r].status = 500
        /\ pre[req[r].userId] = MAX_HISTORY
        /\ storage[req[r].userId].val = PreHistory(MAX_HISTORY)

\* ------------------------------------------------------- reads (C13-C16)
\* The step is request r's getHistory (for /api/session or for a chat
\* turn), and its storage.get did not throw.
ReadStep(r) ==
    /\ pc[r] \in {"session", "history"}
    /\ StepOf(r)
    /\ ~faulted'[r]

\* The step hands the History h to request r's handler: as the body of the
\* /api/session answer, or as handleChatRequest's `history`.
LoadAnswered(r, h) ==
    IF pc[r] = "session"
    THEN pc'[r] = "done" /\ resp'[r] = HistoryResponse(h)
    ELSE pc'[r] = "ai" /\ history'[r] = h

\* ------------------------------------------------------------------ C13
\* C13: a getHistory for a key whose last change was a completed
\* recordInteraction returns a History whose newest record is that
\* interaction.
ReadYourWrites ==
    [][\A r \in Reqs :
          (ReadStep(r) /\ appended[Session(r)] # <<>>) =>
              \E h \in {StoredHistory(storage[Session(r)]), resp'[r].body, history'[r]} :
                  /\ LoadAnswered(r, h)
                  /\ h # <<>>
                  /\ h[Len(h)] = appended[Session(r)][Len(appended[Session(r)])]]_vars

\* A chat turn was recorded and a later /api/session for that user was
\* answered with a History ending in the turn's record.
ReadYourWritesWitness ==
    \E r, q \in Reqs :
        /\ pc[r] = "done" /\ resp[r].kind = "chat"
        /\ pc[q] = "done" /\ resp[q].kind = "history"
        /\ req[q].userId = req[r].userId
        /\ resp[q].body # <<>>
        /\ resp[q].body[Len(resp[q].body)].aiResponse = resp[r].text
        /\ resp[q].body[Len(resp[q].body)].timestamp >= MAX_HISTORY

\* ------------------------------------------------------------------ C14
\* C14: after a clear of a key, with no append since, loading the key
\* yields the empty sequence, whatever the History held before; the clear
\* request is acknowledged with {success: true}.
ClearRoundTrip ==
    /\ \A k \in Keys :
          (~NoClear(k) /\ appended[k] = <<>>) => StoredHistory(storage[k]) = <<>>
    /\ \A r \in Reqs :
          (IsClear(r) /\ ~Absent(req[r].userId) /\ pc[r] = "done" /\ ~faulted[r]) =>
              resp[r] = Response(200, "success", "")

\* A full History was cleared and the /api/session that followed was
\* answered with the empty sequence.
ClearRoundTripWitness ==
    \E r, q \in Reqs :
        /\ IsClear(r) /\ pc[r] = "done" /\ resp[r].kind = "success"
        /\ pre[req[r].userId] = MAX_HISTORY
        /\ pc[q] = "done" /\ resp[q] = HistoryResponse(<<>>)
        /\ req[q].userId = req[r].userId

\* ------------------------------------------------------------------ C15
\* C15: a getHistory changes no key's stored History, and what it returns
\* is what a second load, with nothing in between, returns again.
ReadsSideEffectFree ==
    [][\A r \in Reqs :
          ReadStep(r) =>
              /\ storage' = storage
              /\ appended' = appended
              /\ LoadAnswered(r, StoredHistory(storage'[Session(r)]))
              /\ \A q \in Reqs \ {r} :
                    (pc[q] = "done" /\ resp[q].kind = "history"
                       /\ req[q].userId = req[r].userId
                       /\ appendOrder[req[r].userId] = <<>> /\ NoClear(req[r].userId)) =>
                          LoadAnswered(r, resp[q].body)]_vars

\* Two loads of one key, with no write at all, were answered with the
\* same non-empty History.
ReadsSideEffectFreeWitness ==
    \E r, q \in Reqs :
        /\ r # q
        /\ pc[r] = "done" /\ resp[r].kind = "history"
        /\ pc[q] = "done" /\ resp[q].kind = "history"
        /\ req[q].userId = req[r].userId
        /\ resp[r].body = resp[q].body
        /\ Len(resp[r].body) = MAX_HISTORY - 1

\* ------------------------------------------------------------------ C16
\* C16: loading a key that has no stored History returns the empty
\* sequence, not an error; an append to such a key needs no creation step
\* and leaves a History of exactly its one record.
LazyCreation ==
    [][\A r \in Reqs :
          /\ (ReadStep(r) /\ ~storage[Session(r)].has) => LoadAnswered(r, <<>>)
          /\ (pc[r] = "put" /\ StepOf(r) /\ ~faulted'[r] /\ ~storage[Session(r)].has) =>
                /\ storage'[Session(r)].has
                /\ Len(storage'[Session(r)].val) = 1
                /\ storage'[Session(r)].val[1].userMessage = req[r].message
                /\ storage'[Session(r)].val[1].aiResponse = resp'[r].text]_vars

\* A never-written key was loaded (empty), and its first chat turn left a
\* History of length 1.
LazyCreationWitness ==
    \E r, q \in Reqs :
        /\ pc[q] = "done" /\ resp[q] = HistoryResponse(<<>>)
        /\ pre[req[q].userId] = 0
        /\ NoClear(req[q].userId)
        /\ pc[r] = "done" /\ resp[r].kind = "chat"
        /\ req[r].userId = req[q].userId
        /\ Len(storage[req[r].userId].val) = 1

\* ------------------------------------------------------------------ C17
\* The paths fetch routes to a handler.
Routes == {"/api/chat", "/api/session", "/api/session/clear", "/api/voice"}

\* The request's path is none of the routes (and it is no preflight).
Unrouted(q) == q.path \notin Routes /\ q.path # "" /\ q.method # "OPTIONS"

\* C17 as claimed: a request to a path that is none of the recognized
\* routes is answered 404.
UnroutedIsNotFound ==
    \A r \in Reqs : (pc[r] = "done" /\ Unrouted(req[r])) => resp[r].status = 404

\* C17 as amended: a request to a path that is none of the routes is
\* answered 200 with the static frontend page, in its first step, and no
\* History is read or modified and no inference call is made.
UnroutedServesFrontend ==
    [][\A r \in Reqs :
          (pc[r] = "idle" /\ StepOf(r) /\ Unrouted(req'[r])) =>
              /\ pc'[r] = "done"
              /\ resp'[r] = Response(200, "html", "")
              /\ storage' = storage
              /\ appended' = appended
              /\ gate' = gate
              /\ admitOrder' = admitOrder
              /\ history'[r] = <<>> /\ prompt'[r] = <<>> /\ aiResult'[r] = NoResult]_vars

\* An unknown path under /api was answered with the frontend page.
UnroutedServesFrontendWitness ==
    \E r \in Reqs :
        /\ pc[r] = "done"
        /\ req[r].path = "/api/unknown"
        /\ resp[r].status = 200
        /\ resp[r].kind = "html"

\* ------------------------------------------------------------------ C18
\* C18: the context window a chat turn derives is the last min(5, n)
\* records of the n-record History its getHistory loaded, oldest first, as
\* (user, assistant) pairs; deriving it leaves the stored History as it is,
\* and the turn keeps it unchanged until it ends.
ContextWindow ==
    [][\A r \in Reqs :
          /\ (pc[r] = "history" /\ pc'[r] = "ai") =>
                LET h == StoredHistory(storage[Session(r)])
                    n == Len(h)
                    c == RecentHistory(history'[r])
                    m == IF n < CONTEXT_SIZE THEN n ELSE CONTEXT_SIZE
                IN /\ history'[r] = h
                   /\ Len(c) = m
                   /\ \A i \in 1..m :
                         /\ c[i].user = h[n - m + i].userMessage
                         /\ c[i].assistant = h[n - m + i].aiResponse
                   /\ storage' = storage
          /\ (pc[r] \in {"ai", "add", "put"} /\ pc'[r] # "done") =>
                history'[r] = history[r]]_vars

\* One turn derived a window of 5 from a History of 20, another an empty
\* window from an empty History.
ContextWindowWitness ==
    \E r, q \in Reqs :
        /\ pc[r] = "ai" /\ Len(history[r]) = MAX_HISTORY /\ Len(Context(r)) = CONTEXT_SIZE
        /\ Context(r)[1].user = history[r][MAX_HISTORY - CONTEXT_SIZE + 1].userMessage
        /\ pc[q] = "ai" /\ history[q] = <<>> /\ Context(q) = <<>>

\* ------------------------------------------------------------------ C19
\* The History of k after the step keeps the records of the History before
\* it unchanged and in place: it is the same, or empty, or a suffix of the
\* old one followed by one new record.
KeepsRecords(k) ==
    LET h == StoredHistory(storage[k])
        g == StoredHistory(storage'[k])
    IN \/ g = h
       \/ g = <<>>
       \/ /\ Len(g) >= 1
          /\ \E d \in 0..Len(h) : SubSeq(g, 1, Len(g) - 1) = SubSeq(h, d + 1, Len(h))

\* The History of k is a contiguous suffix of the records appended to k
\* since its last clear.
SuffixOfAppended(k) ==
    LET h == StoredHistory(storage[k])
        n == Len(appended[k])
    IN /\ Len(h) <= n
       /\ h = SubSeq(appended[k], n - Len(h) + 1, n)

\* C19: records are immutable once written: each History is a contiguous
\* suffix of the records appended since the last clear, and a step never
\* changes, reorders or duplicates a stored record; records leave only
\* from the front or by a clear.
RecordsImmutable ==
    /\ [](\A k \in Keys : SuffixOfAppended(k))
    /\ [][\A k \in Keys : KeepsRecords(k)]_vars

\* Two records were appended to a 19-record History: the first was
\* evicted, the others are as they were.
RecordsImmutableWitness ==
    \E k \in Keys :
        /\ pre[k] = MAX_HISTORY - 1
        /\ Len(appended[k]) = MAX_HISTORY + 1
        /\ SubSeq(storage[k].val, 1, MAX_HISTORY - 2) = SubSeq(PreHistory(pre[k]), 2, MAX_HISTORY - 1)

\* ------------------------------------------------------------------ C20
\* The request is a chat turn whose prompt has been built.
Prompted(r) == pc[r] \in {"ai", "add", "put"}

HEADER == "Previous conversation context:\n"

\* C20: the prompt is the fixed preamble, then, if and only if the context
\* window is non-empty, the header and one Student/Assistant pair per
\* context entry in context order, then the current message as the final
\* question; equal (message, context) give equal prompts.
PromptStructure ==
    \A r \in Reqs : Prompted(r) =>
        LET c == Context(r)
            p == prompt[r]
            n == Len(c)
            q0 == IF n = 0 THEN 1 ELSE 3 + 5 * n
        IN /\ p[1] = PREAMBLE
           /\ Len(p) = q0 + 3
           /\ (n > 0) <=> (\E i \in DOMAIN p : p[i] = HEADER)
           /\ n > 0 => p[2] = HEADER /\ p[q0] = "\n"
           /\ \A i \in 1..n :
                 /\ p[5 * i - 2] = "Student: "
                 /\ p[5 * i - 1] = c[i].user
                 /\ p[5 * i] = "\nAssistant: "
                 /\ p[5 * i + 1] = c[i].assistant
                 /\ p[5 * i + 2] = "\n"
           /\ p[q0 + 1] = "Current question: "
           /\ p[q0 + 2] = req[r].message
           /\ p[q0 + 3] = "\n\nProvide a helpful, educational response:"
           /\ \A q \in Reqs :
                 (Prompted(q) /\ req[q].message = req[r].message /\ Context(q) = c) =>
                     prompt[q] = p

\* One prompt was built from a window of 5 and one from an empty window.
PromptStructureWitness ==
    \E r, q \in Reqs :
        /\ pc[r] = "ai" /\ Len(Context(r)) = CONTEXT_SIZE
        /\ Len(prompt[r]) = 31
        /\ pc[q] = "ai" /\ Context(q) = <<>>
        /\ Len(prompt[q]) = 4

\* ------------------------------------------------------------------ C21
\* C21: the step that completes a chat turn records, as the newest record
\* of the user's History, exactly the string it returns to the client, and
\* that string is non-empty; when inference resolved with an empty or
\* missing completion, the string returned and recorded is the apology.
ReturnedIsRecorded ==
    [][\A r \in Reqs :
          (pc[r] = "put" /\ pc'[r] = "done" /\ ~StorageFailed(r)) =>
              LET u == req[r].userId
                  rec == Newest(u)
              IN /\ resp'[r].status = 200
                 /\ resp'[r].kind = "chat"
                 /\ rec.aiResponse = resp'[r].text
                 /\ ~Absent(resp'[r].text)
                 /\ appended'[u] = Append(appended[u], rec)
                 /\ (aiResult[r].settled = "resolved" /\ Absent(aiResult[r].response)) =>
                        /\ resp'[r].text = APOLOGY
                        /\ rec.aiResponse = APOLOGY
                        /\ ~Absent(APOLOGY)]_vars

\* A turn whose inference resolved without a completion was answered with
\* the apology, and the apology is what the newest record holds.
ReturnedIsRecordedWitness ==
    \E r \in Reqs :
        /\ pc[r] = "done"
        /\ IsChat(r)
        /\ resp[r].kind = "chat"
        /\ resp[r].text = APOLOGY
        /\ storage[req[r].userId].has
        /\ storage[req[r].userId].val[Len(storage[req[r].userId].val)].aiResponse = APOLOGY

\* ------------------------------------------------------------------ C22
\* The routes whose handler tests the method.
PostOnly == {"/api/chat", "/api/session/clear"}

\* C22: a request to /api/chat or /api/session/clear whose method is
\* neither POST nor OPTIONS is answered 405 in its first step, before its
\* body or userId is read, with no call to the session object or to the
\* inference service and no History change; an OPTIONS request to any path
\* is answered in its first step and changes no History either.
MethodNotAllowed ==
    [][\A r \in Reqs :
          /\ (pc[r] = "idle" /\ StepOf(r) /\ req'[r].path \in PostOnly
                 /\ req'[r].method \notin {"POST", "OPTIONS"}) =>
                /\ pc'[r] = "done"
                /\ resp'[r] = Response(405, "text", "Method not allowed")
                /\ ~req'[r].json
                /\ req'[r].userId = UNDEFINED /\ req'[r].message = UNDEFINED
                /\ storage' = storage /\ appended' = appended
                /\ gate' = gate
                /\ admitOrder' = admitOrder /\ addOrder' = addOrder
                /\ aiResult'[r] = NoResult
          /\ (pc[r] = "idle" /\ StepOf(r) /\ req'[r].method = "OPTIONS") =>
                /\ pc'[r] = "done"
                /\ resp'[r].status = 200
                /\ storage' = storage /\ appended' = appended
                /\ gate' = gate
                /\ admitOrder' = admitOrder /\ addOrder' = addOrder]_vars

\* A GET to /api/chat and a GET to /api/session/clear were both answered
\* 405, and the 20-record History is as it was.
MethodNotAllowedWitness ==
    \E r, q \in Reqs :
        /\ pc[r] = "done" /\ req[r].path = "/api/chat" /\ req[r].method = "GET"
        /\ resp[r].status = 405
        /\ pc[q] = "done" /\ req[q].path = "/api/session/clear" /\ req[q].method = "GET"
        /\ resp[q].status = 405
        /\ storage["alice"].has /\ storage["alice"].val = PreHistory(MAX_HISTORY)

====
